---- MODULE Spec2Model ----
(***************************************************************************)
(* enum_pipeline: the pipeline runtime (src/src/lib.rs) and the            *)
(* #[derive(Execute)] dispatch compiler (src/enum_pipeline_derive).        *)
(*                                                                         *)
(* Two state machines share the module.  Spec / LiveSpec run a pipeline:   *)
(* a Vec of steps is converted with into_pipeline() and executed in one of *)
(* the three argument modes.  CompileSpec runs expand_execute on a parsed  *)
(* DeriveInput.                                                            *)
(***************************************************************************)
EXTENDS Integers, Sequences, FiniteSets, TLC

VARIABLES
    pc,        \* position of the caller: "vec", "pipeline", "loop", "in_step", "done", "off"
    mode,      \* which execute impl is used: "none", "shared", "mut" ("off": not running)
    vec,       \* the caller's Vec<T>, moved out of by into_pipeline()
    steps,     \* PipelineVec.steps / PipelineVecWith.steps, consumed from the front
    cur,       \* the step whose execute() call is in flight (<<>> = none, else <<step>>)
    data,      \* the caller's argument storage (RefDataPipelineData / MutDataPipelineData)
    statics,   \* the test module's static mut counters
    events,    \* history: the begin / end of every step's execute(), in order
    input,     \* history: the Vec<T> the caller built
    data0,     \* history: the argument storage before execute()
    cpc,       \* position of the macro: "start", "expanded", "off"
    derive,    \* the DeriveInput given to expand_execute
    result     \* what expand_execute produced: a panic or a TokenStream

vars == <<pc, mode, vec, steps, cur, data, statics, events, input, data0, cpc, derive, result>>

rtvars == <<pc, mode, vec, steps, cur, data, statics, events, input, data0>>
ccvars == <<cpc, derive, result>>

(***************************************************************************)
(* Bounds of the model.                                                    *)
(***************************************************************************)
MaxSteps == 3

\* The f32 payloads of One(..) and the f32 multiplier; small integers, on
\* which f32 addition and multiplication are exact.
StepValues == {12, 24}
Mults == {2}

(***************************************************************************)
(* Pipeline runtime: src/src/lib.rs                                        *)
(***************************************************************************)
Modes == {"none", "shared", "mut"}

\* enum VoidDispatchPipeline { One, Two }
VoidSteps == {[tag |-> "One", v |-> 0], [tag |-> "Two", v |-> 0]}

\* enum RefDataPipeline / MutDataPipeline { One(f32), Two }
DataSteps == {[tag |-> "One", v |-> x] : x \in StepValues} \cup {[tag |-> "Two", v |-> 0]}

StepsOf(m) == IF m = "none" THEN VoidSteps ELSE DataSteps

SeqsUpTo(S, n) == UNION {[1..k -> S] : k \in 0..n}

\* The caller's argument before execute(): unit for the no-argument mode,
\* RefDataPipelineData { mult } for the shared mode, MutDataPipelineData
\* (Default or already used) for the exclusive mode.
ArgsOf(m) ==
    IF m = "none" THEN {[mult |-> 0, one_value |-> 0, two_count |-> 0]}
    ELSE IF m = "shared" THEN {[mult |-> x, one_value |-> 0, two_count |-> 0] : x \in Mults}
    ELSE {[mult |-> 0, one_value |-> x, two_count |-> 0] : x \in {0, 1}}

StaticsInit ==
    [VOID_ONE_COUNT |-> 0, VOID_TWO_COUNT |-> 0, REF_ONE_VALUE |-> 0, REF_TWO_COUNT |-> 0]

\* Vec<T>::into_pipeline: the Vec becomes the steps field, moved, not cloned.
IntoPipeline(v) == v

\* `for step in self.steps`: the next item of the consuming iterator.
IterNextFromBack(s) == [item |-> s[Len(s)], rest |-> SubSeq(s, 1, Len(s) - 1)]
IterNext(s) == [item |-> Head(s), rest |-> Tail(s)]

\* `for step in self.steps`: the loop ends when the iterator is exhausted.
IterDoneEarly(s) == Len(s) <= 1
IterDone(s) == s = <<>>

\* impl VoidDispatchPipeline: handle_one / handle_two on the statics.
VoidExecute(step, st) ==
    IF step.tag = "One"
    THEN [st EXCEPT !.VOID_ONE_COUNT = @ + 1]
    ELSE [st EXCEPT !.VOID_TWO_COUNT = @ + 1]

\* impl ExecuteWith<RefDataPipelineData> for RefDataPipeline: the handlers
\* read arg.mult and write the statics.
RefExecute(step, arg, st) ==
    IF step.tag = "One"
    THEN [st EXCEPT !.REF_ONE_VALUE = @ + step.v * arg.mult]
    ELSE [st EXCEPT !.REF_TWO_COUNT = @ + 1]

\* impl ExecuteWithMut<MutDataPipelineData> for MutDataPipeline: the step
\* writes through the &mut it is given.
MutExecute(step, arg) ==
    IF step.tag = "One"
    THEN [arg EXCEPT !.one_value = @ + step.v]
    ELSE [arg EXCEPT !.two_count = @ + 1]

\* PipelineVecWith::execute(self, arg: &TArg): step.execute(arg) hands the
\* caller's reference on; what is behind it after the call.
ExecuteWithScribbles(step, arg) == [arg EXCEPT !.mult = @ + 1]
ExecuteWithArg(step, arg) == arg

\* PipelineVecWith::execute(self, arg: &mut TArg): step.execute(arg) reborrows
\* the caller's storage; what is behind it after the call.
ExecuteWithMutOnCopy(step, arg) == arg
ExecuteWithMutArg(step, arg) == MutExecute(step, arg)

RuntimeOff ==
    /\ pc = "off" /\ mode = "off" /\ vec = <<>> /\ steps = <<>> /\ cur = <<>>
    /\ data = [mult |-> 0, one_value |-> 0, two_count |-> 0]
    /\ statics = StaticsInit /\ events = <<>> /\ input = <<>>
    /\ data0 = [mult |-> 0, one_value |-> 0, two_count |-> 0]

CompilerOff ==
    /\ cpc = "off" /\ derive = [kind |-> "off"] /\ result = [kind |-> "none"]

RuntimeInit ==
    /\ pc = "vec"
    /\ mode \in Modes
    /\ vec \in SeqsUpTo(StepsOf(mode), MaxSteps)
    /\ steps = <<>>
    /\ cur = <<>>
    /\ data \in ArgsOf(mode)
    /\ statics = StaticsInit
    /\ events = <<>>
    /\ input = vec
    /\ data0 = data

\* let pipeline = vec![..].into_pipeline();
DoIntoPipeline ==
    /\ pc = "vec"
    /\ steps' = IntoPipeline(vec)
    /\ vec' = <<>>
    /\ pc' = "pipeline"
    /\ UNCHANGED <<mode, cur, data, statics, events, input, data0, ccvars>>

\* pipeline.execute(..): the call, up to the loop head.
ExecuteCall ==
    /\ pc = "pipeline"
    /\ pc' = "loop"
    /\ UNCHANGED <<mode, vec, steps, cur, data, statics, events, input, data0, ccvars>>

\* One iteration of the loop, first half: the iterator yields the next step
\* and step.execute(..) is called.
StepCall ==
    /\ pc = "loop"
    /\ ~IterDone(steps)
    /\ cur' = <<IterNext(steps).item>>
    /\ steps' = IterNext(steps).rest
    /\ events' = Append(events, [kind |-> "begin", step |-> IterNext(steps).item])
    /\ pc' = "in_step"
    /\ UNCHANGED <<mode, vec, data, statics, input, data0, ccvars>>

\* One iteration, second half: the step's execute() has run and returns.
StepReturnNone ==
    /\ pc = "in_step" /\ mode = "none"
    /\ statics' = VoidExecute(cur[1], statics)
    /\ events' = Append(events, [kind |-> "end", step |-> cur[1]])
    /\ cur' = <<>>
    /\ pc' = "loop"
    /\ UNCHANGED <<mode, vec, steps, data, input, data0, ccvars>>

StepReturnShared ==
    /\ pc = "in_step" /\ mode = "shared"
    /\ statics' = RefExecute(cur[1], data, statics)
    /\ data' = ExecuteWithArg(cur[1], data)
    /\ events' = Append(events, [kind |-> "end", step |-> cur[1]])
    /\ cur' = <<>>
    /\ pc' = "loop"
    /\ UNCHANGED <<mode, vec, steps, input, data0, ccvars>>

StepReturnMut ==
    /\ pc = "in_step" /\ mode = "mut"
    /\ data' = ExecuteWithMutArg(cur[1], data)
    /\ events' = Append(events, [kind |-> "end", step |-> cur[1]])
    /\ cur' = <<>>
    /\ pc' = "loop"
    /\ UNCHANGED <<mode, vec, steps, statics, input, data0, ccvars>>

\* The iterator is exhausted: execute() returns to the caller.
ExecuteReturn ==
    /\ pc = "loop"
    /\ IterDone(steps)
    /\ pc' = "done"
    /\ UNCHANGED <<mode, vec, steps, cur, data, statics, events, input, data0, ccvars>>

RuntimeNext ==
    \/ DoIntoPipeline
    \/ ExecuteCall
    \/ StepCall
    \/ StepReturnNone
    \/ StepReturnShared
    \/ StepReturnMut
    \/ ExecuteReturn

Init == RuntimeInit /\ CompilerOff

Next == RuntimeNext

Spec == Init /\ [][Next]_vars

\* The loop is straight-line synchronous code and every handler of the
\* model returns: whatever can run next does run.
LiveSpec == Init /\ [][Next]_vars /\ WF_vars(Next)

(***************************************************************************)
(* Dispatch compiler: src/enum_pipeline_derive/src                         *)
(*                                                                         *)
(* A String is a sequence of one-character strings.  The fixed text of a   *)
(* panic message, which nothing inspects, is kept as one element.          *)
(***************************************************************************)
MaxVariants == 2
MaxAttrsTotal == 3     \* attributes in the whole enum definition
MaxFieldsTotal == 2    \* fields in the whole enum definition

TypeName == <<"T">>
VariantNames == <<"A", "B", "C", "D">>

\* attr.tokens.to_string() of the attributes tried: #[handler(f)],
\* #[handler(U :: g)], #[handler] and #[handler = "f"].
PBare == <<"(", "f", ")">>
PQualified == <<"(", "U", " ", ":", ":", " ", "g", ")">>
PEmpty == <<>>
PNameValue == <<"=", " ", "\"", "f", "\"">>
HandlerPayloads == {PBare, PQualified, PEmpty, PNameValue}

Attrs ==
    {[path |-> <<"handler">>, tokens |-> p] : p \in HandlerPayloads}
        \cup {[path |-> <<"doc">>, tokens |-> <<>>]}

\* A variant as syn parses it: its name, its attributes and its fields.
Variant(i, as, kf) ==
    [ident |-> <<VariantNames[i]>>, attrs |-> as, fields |-> [j \in 1..kf |-> "f32"]]

\* input is some definition that continues the variants vs with the variants
\* i..n, which carry at most a attributes and f fields in all.
RECURSIVE IsDeriveInput(_, _, _, _, _, _)
IsDeriveInput(in, vs, i, n, a, f) ==
    IF i > n
    THEN in = [kind |-> "enum", ident |-> TypeName, variants |-> vs]
    ELSE \E ka \in 0..a, kf \in 0..f :
            \E as \in [1..ka -> Attrs] :
                IsDeriveInput(in, Append(vs, Variant(i, as, kf)), i + 1, n, a - ka, f - kf)

Min(S) == CHOOSE x \in S : \A y \in S : x <= y

\* [String]::join(sep)
RECURSIVE Join(_, _)
Join(ss, sep) ==
    IF ss = <<>> THEN <<>>
    ELSE IF Len(ss) = 1 THEN ss[1]
    ELSE ss[1] \o sep \o Join(Tail(ss), sep)

\* str::contains(needle)
Contains(hay, needle) ==
    \E i \in 0..(Len(hay) - Len(needle)) :
        \A j \in 1..Len(needle) : hay[i + j] = needle[j]

Digits == <<"0", "1", "2", "3", "4", "5", "6", "7", "8", "9">>

\* Display of an unsigned integer
RECURSIVE ToDecimal(_)
ToDecimal(n) ==
    IF n < 10 THEN <<Digits[n + 1]>>
    ELSE ToDecimal(n \div 10) \o <<Digits[(n % 10) + 1]>>

Panic(msg) == [kind |-> "panic", msg |-> msg]

\* util.rs, of_relevant_type: the attributes whose path is the single
\* identifier ty.
OfRelevantType(attrs, ty) ==
    SelectSeq(attrs, LAMBDA attr : Len(attr.path) = 1 /\ attr.path[1] = ty)

\* util.rs, as_generated_ident: prefix followed by the 1-based position.
AsGeneratedIdentZeroBased(fields, prefix) ==
    [i \in 1..Len(fields) |-> prefix \o ToDecimal(i - 1)]
AsGeneratedIdent(fields, prefix) ==
    [i \in 1..Len(fields) |-> prefix \o ToDecimal((i - 1) + 1)]

\* format!("{}::{}", enum_name, variant_name)
FullVariantName(enum_name, variant_name) == enum_name \o <<":", ":">> \o variant_name

\* variant_handler_path[1..variant_handler_path.len() - 1]: a panic when the
\* text is shorter than two bytes (len() - 1 overflows, or the range is out
\* of bounds, as the build has overflow checks or not).
HandlerFn(path) ==
    IF Len(path) < 2
    THEN Panic(<<"attempt to subtract with overflow / byte index out of range">>)
    ELSE [kind |-> "ok", text |-> SubSeq(path, 2, Len(path) - 1)]

\* "ensure the full variant handler function is qualified"
QualifyAlways(enum_name, handler_fn) == enum_name \o <<":", ":">> \o handler_fn
Qualify(enum_name, handler_fn) ==
    IF Contains(handler_fn, <<":", ":">>)
    THEN handler_fn
    ELSE enum_name \o <<":", ":">> \o handler_fn

\* The match on variant_field_names.len() that formats the arm.
VariantArmText(full_variant_name, full_handler_fn, names) ==
    IF Len(names) = 0
    THEN full_variant_name \o <<" ", "=", ">", " ">> \o full_handler_fn \o <<"(", ")">>
    ELSE full_variant_name \o <<"(">> \o Join(names, <<",">>) \o <<")">>
            \o <<" ", "=", ">", " ">>
            \o full_handler_fn \o <<"(">> \o Join(names, <<",">>) \o <<")">>

\* The closure of expand_execute's map: one variant to its arm, or a panic.
VariantArm(enum_name, variant) ==
    LET full_variant_name == FullVariantName(enum_name, variant.ident)
        variant_handlers_all == OfRelevantType(variant.attrs, "handler")
    IN  IF Len(variant_handlers_all) = 0
        THEN Panic(<<"Variant ">> \o full_variant_name
                   \o <<" is missing attribute #[handler(your_handler_function)]">>)
        ELSE IF Len(variant_handlers_all) > 1
        THEN Panic(<<"Variant ">> \o full_variant_name
                   \o <<" has too many handler attributes">>)
        ELSE LET variant_handler_fn == HandlerFn(variant_handlers_all[1].tokens)
             IN  IF variant_handler_fn.kind = "panic" THEN variant_handler_fn
                 ELSE [kind |-> "ok",
                       text |-> VariantArmText(
                                    full_variant_name,
                                    Qualify(enum_name, variant_handler_fn.text),
                                    AsGeneratedIdent(variant.fields, <<"_", "_">>))]

\* variants.into_iter().map(..).collect(): the arms in declaration order; the
\* first variant whose closure panics ends the expansion.
CollectArmsSkipFailed(enum_name, variants) ==
    LET r == [i \in 1..Len(variants) |-> VariantArm(enum_name, variants[i])]
        good == SelectSeq(r, LAMBDA x : x.kind = "ok")
    IN  [kind |-> "ok", arms |-> [i \in 1..Len(good) |-> good[i].text]]
CollectArmsLastPanic(enum_name, variants) ==
    LET r == [i \in 1..Len(variants) |-> VariantArm(enum_name, variants[i])]
        bad == {i \in 1..Len(variants) : r[i].kind = "panic"}
    IN  IF bad # {} THEN r[CHOOSE x \in bad : \A y \in bad : y <= x]
        ELSE [kind |-> "ok", arms |-> [i \in 1..Len(variants) |-> r[i].text]]
CollectArms(enum_name, variants) ==
    LET r == [i \in 1..Len(variants) |-> VariantArm(enum_name, variants[i])]
        bad == {i \in 1..Len(variants) : r[i].kind = "panic"}
    IN  IF bad # {} THEN r[Min(bad)]
        ELSE [kind |-> "ok", arms |-> [i \in 1..Len(variants) |-> r[i].text]]

\* format!("match self {{\n{}\n}}", arms.join(",\n"))
MatchTextNoComma(arms) ==
    <<"m", "a", "t", "c", "h", " ", "s", "e", "l", "f", " ", "{", "\n">>
        \o Join(arms, <<"\n">>) \o <<"\n", "}">>
MatchTextUnclosed(arms) ==
    <<"m", "a", "t", "c", "h", " ", "s", "e", "l", "f", " ", "{", "\n">>
        \o Join(arms, <<",", "\n">>) \o <<"\n">>
MatchText(arms) ==
    <<"m", "a", "t", "c", "h", " ", "s", "e", "l", "f", " ", "{", "\n">>
        \o Join(arms, <<",", "\n">>) \o <<"\n", "}">>

(***************************************************************************)
(* syn::parse_str::<ExprMatch>: the lexer and the part of the expression   *)
(* grammar that the assembled text can fall in.  A match is                *)
(*     match self { arm , arm , ... }                                      *)
(* an arm is  pattern => call,  a pattern is  path  or  path(ident, ..),   *)
(* a call is  path(ident, ..)  and a path is  ident :: ident :: ...        *)
(***************************************************************************)
IdentChars ==
    {"a", "b", "c", "d", "e", "f", "g", "h", "i", "j", "k", "l", "m",
     "n", "o", "p", "q", "r", "s", "t", "u", "v", "w", "x", "y", "z",
     "A", "B", "C", "D", "E", "F", "G", "H", "I", "J", "K", "L", "M",
     "N", "O", "P", "Q", "R", "S", "T", "U", "V", "W", "X", "Y", "Z",
     "0", "1", "2", "3", "4", "5", "6", "7", "8", "9", "_"}

Whitespace == {" ", "\n", "\t"}

Ident(w) == [t |-> "ident", s |-> w]
Punct(w) == [t |-> "punct", s |-> w]

\* The tokens of a text; word is the identifier being read.
RECURSIVE Lex(_, _)
Lex(s, word) ==
    LET flush == IF word = <<>> THEN <<>> ELSE <<Ident(word)>>
    IN  IF s = <<>> THEN flush
        ELSE IF Head(s) \in IdentChars THEN Lex(Tail(s), Append(word, Head(s)))
        ELSE IF Head(s) \in Whitespace THEN flush \o Lex(Tail(s), <<>>)
        ELSE IF Len(s) >= 2 /\ Head(s) = ":" /\ s[2] = ":"
            THEN flush \o <<Punct(<<":", ":">>)>> \o Lex(Tail(Tail(s)), <<>>)
        ELSE IF Len(s) >= 2 /\ Head(s) = "=" /\ s[2] = ">"
            THEN flush \o <<Punct(<<"=", ">">>)>> \o Lex(Tail(Tail(s)), <<>>)
        ELSE flush \o <<Punct(<<Head(s)>>)>> \o Lex(Tail(s), <<>>)

IsPunct(tok, w) == tok.t = "punct" /\ tok.s = w

\* The tokens split at the commas outside parentheses; seg is the piece
\* being read and depth the number of parentheses open.
RECURSIVE SplitTop(_, _, _)
SplitTop(toks, depth, seg) ==
    IF toks = <<>> THEN <<seg>>
    ELSE IF depth = 0 /\ IsPunct(Head(toks), <<",">>)
        THEN <<seg>> \o SplitTop(Tail(toks), 0, <<>>)
    ELSE SplitTop(Tail(toks),
                  IF IsPunct(Head(toks), <<"(">>) THEN depth + 1
                  ELSE IF IsPunct(Head(toks), <<")">>) /\ depth > 0 THEN depth - 1
                  ELSE depth,
                  Append(seg, Head(toks)))

Failed == [ok |-> FALSE]

\* ident :: ident :: ... , as the sequence of its segments
ParsePath(toks) ==
    IF /\ Len(toks) % 2 = 1
       /\ \A i \in 1..Len(toks) :
             IF i % 2 = 1 THEN toks[i].t = "ident" ELSE IsPunct(toks[i], <<":", ":">>)
    THEN [ok |-> TRUE, path |-> [i \in 1..((Len(toks) + 1) \div 2) |-> toks[2 * i - 1].s]]
    ELSE Failed

\* ident , ident , ... (possibly none), as the sequence of the identifiers
ParseIdentList(toks) ==
    IF toks = <<>> THEN [ok |-> TRUE, idents |-> <<>>]
    ELSE IF /\ Len(toks) % 2 = 1
            /\ \A i \in 1..Len(toks) :
                  IF i % 2 = 1 THEN toks[i].t = "ident" ELSE IsPunct(toks[i], <<",">>)
    THEN [ok |-> TRUE, idents |-> [i \in 1..((Len(toks) + 1) \div 2) |-> toks[2 * i - 1].s]]
    ELSE Failed

\* path ( ident , ... ): a tuple-struct pattern or a call expression
ParseApplied(toks) ==
    LET opens == {i \in 1..Len(toks) : IsPunct(toks[i], <<"(">>)}
    IN  IF opens = {} \/ toks = <<>> THEN Failed
        ELSE IF ~IsPunct(toks[Len(toks)], <<")">>) THEN Failed
        ELSE LET o == Min(opens)
                 p == ParsePath(SubSeq(toks, 1, o - 1))
                 a == ParseIdentList(SubSeq(toks, o + 1, Len(toks) - 1))
             IN  IF p.ok /\ a.ok
                 THEN [ok |-> TRUE, path |-> p.path, args |-> a.idents]
                 ELSE Failed

ParsePat(toks) ==
    IF \E i \in 1..Len(toks) : IsPunct(toks[i], <<"(">>)
    THEN ParseApplied(toks)
    ELSE LET p == ParsePath(toks)
         IN  IF p.ok THEN [ok |-> TRUE, path |-> p.path, args |-> <<>>] ELSE Failed

\* pattern => call
ParseArm(toks) ==
    LET arrows == {i \in 1..Len(toks) : IsPunct(toks[i], <<"=", ">">>)}
    IN  IF arrows = {} THEN Failed
        ELSE LET a == Min(arrows)
                 pat == ParsePat(SubSeq(toks, 1, a - 1))
                 body == ParseApplied(SubSeq(toks, a + 1, Len(toks)))
             IN  IF pat.ok /\ body.ok
                 THEN [ok |-> TRUE,
                       arm |-> [pat |-> [path |-> pat.path, binds |-> pat.args],
                                body |-> [func |-> body.path, args |-> body.args]]]
                 ELSE Failed

ParseExprMatch(text) ==
    LET toks == Lex(text, <<>>)
    IN  IF \/ Len(toks) < 4
           \/ toks[1] # Ident(<<"m", "a", "t", "c", "h">>)
           \/ toks[2] # Ident(<<"s", "e", "l", "f">>)
           \/ ~IsPunct(toks[3], <<"{">>)
           \/ ~IsPunct(toks[Len(toks)], <<"}">>)
        THEN Failed
        ELSE LET inner == SubSeq(toks, 4, Len(toks) - 1)
                 segs == IF inner = <<>> THEN <<>> ELSE SplitTop(inner, 0, <<>>)
                 \* a comma after the last arm is allowed
                 pieces == IF segs # <<>> /\ segs[Len(segs)] = <<>>
                           THEN SubSeq(segs, 1, Len(segs) - 1) ELSE segs
                 parsed == [i \in 1..Len(pieces) |-> ParseArm(pieces[i])]
             IN  IF \A i \in 1..Len(pieces) : parsed[i].ok
                 THEN [ok |-> TRUE, arms |-> [i \in 1..Len(pieces) |-> parsed[i].arm]]
                 ELSE Failed

(***************************************************************************)
(* expand_execute                                                          *)
(***************************************************************************)
ExpandExecute(in) ==
    IF in.kind # "enum"
    THEN Panic(<<"Pipeline derive macro only works on enums">>)
    ELSE LET enum_name == in.ident
             arms == CollectArms(enum_name, in.variants)
         IN  IF arms.kind = "panic" THEN arms
             ELSE LET contents == ParseExprMatch(MatchText(arms.arms))
                  IN  IF ~contents.ok
                      THEN Panic(<<"called Result::unwrap() on an Err value: ">>
                                 \o <<"Error(..)">>)
                      ELSE [kind |-> "tokens",
                            impl_trait |-> "Execute",
                            self_ty |-> in.ident,
                            contents |-> contents.arms]

CompileInit ==
    /\ cpc = "start"
    /\ \/ derive = [kind |-> "struct", ident |-> TypeName, variants |-> <<>>]
       \/ \E n \in 0..MaxVariants :
             IsDeriveInput(derive, <<>>, 1, n, MaxAttrsTotal, MaxFieldsTotal)
    /\ result = [kind |-> "none"]
    /\ RuntimeOff

\* #[proc_macro_derive(Execute, attributes(handler))]: the derive runs
\* expand_execute on the parsed input and returns what it returns.
DeriveHelperAttr ==
    /\ cpc = "start"
    /\ result' = ExpandExecute(derive)
    /\ cpc' = "expanded"
    /\ UNCHANGED <<derive, rtvars>>

CompileNext == DeriveHelperAttr

CompileSpec == CompileInit /\ [][CompileNext]_vars

(***************************************************************************)
(* Claims about the pipeline runtime                                       *)
(***************************************************************************)
Completed == Len(events) \div 2

RECURSIVE SumOne(_)
SumOne(s) == IF s = <<>> THEN 0
             ELSE (IF Head(s).tag = "One" THEN Head(s).v ELSE 0) + SumOne(Tail(s))

RECURSIVE CountTwo(_)
CountTwo(s) == IF s = <<>> THEN 0
               ELSE (IF Head(s).tag = "Two" THEN 1 ELSE 0) + CountTwo(Tail(s))

\* C1: in every mode and for every input length, the begin / end events of
\* the steps' execute() calls are begin(input[1]), end(input[1]),
\* begin(input[2]), ... : each step once, in index order, each finished
\* before the next begins, and when execute() has returned all of them ran.
C1_ExecutionOrder ==
    /\ Len(events) <= 2 * Len(input)
    /\ \A k \in 1..Len(events) :
          events[k] = [kind |-> IF k % 2 = 1 THEN "begin" ELSE "end",
                       step |-> input[(k + 1) \div 2]]
    /\ (cur # <<>>) <=> (Len(events) % 2 = 1)
    /\ pc = "done" => Len(events) = 2 * Len(input)

C1_Witness ==
    /\ pc = "done" /\ mode = "shared"
    /\ Len(input) = MaxSteps
    /\ input[1] # input[2]
    /\ Len(events) = 2 * MaxSteps

\* C2: in exclusive-argument mode the caller's storage always holds the
\* initial value with the mutations of the completed steps applied, so the
\* step in flight sees what its predecessor left and the caller sees them
\* all; [One(12.0), Two] on the default gives one_value 12.0, two_count 1.
C2_MutThreaded ==
    mode = "mut" =>
        /\ data.one_value = data0.one_value + SumOne(SubSeq(input, 1, Completed))
        /\ data.two_count = data0.two_count + CountTwo(SubSeq(input, 1, Completed))
        /\ (/\ pc = "done"
            /\ input = <<[tag |-> "One", v |-> 12], [tag |-> "Two", v |-> 0]>>
            /\ data0.one_value = 0 /\ data0.two_count = 0)
           => (data.one_value = 12 /\ data.two_count = 1)

C2_Witness ==
    /\ mode = "mut" /\ pc = "done"
    /\ input = <<[tag |-> "One", v |-> 12], [tag |-> "Two", v |-> 0]>>
    /\ data0.one_value = 0
    /\ data.one_value = 12 /\ data.two_count = 1

\* C3: in shared-argument mode the caller's argument value is the same at
\* every point of the execution and after it as before it.
C3_SharedUnchanged == mode = "shared" => data = data0

C3_Witness ==
    /\ mode = "shared" /\ pc = "done"
    /\ input = <<[tag |-> "One", v |-> 24], [tag |-> "Two", v |-> 0]>>
    /\ data.mult = 2
    /\ statics.REF_ONE_VALUE = 48 /\ statics.REF_TWO_COUNT = 1

\* C4: execute() eventually returns, and it returns with every step run and
\* none left in the pipeline.
C4_Terminates == <>(pc = "done" /\ steps = <<>> /\ Completed = Len(input))

C4_Witness ==
    /\ pc = "done" /\ mode = "none" /\ Len(input) = MaxSteps /\ Completed = MaxSteps
    /\ statics.VOID_ONE_COUNT + statics.VOID_TWO_COUNT = MaxSteps

(***************************************************************************)
(* Claims about the dispatch compiler                                      *)
(***************************************************************************)
Expanded == cpc = "expanded"
Variants == derive.variants
NVariants == Len(derive.variants)

HandlerIdx(i) == {k \in 1..Len(Variants[i].attrs) : Variants[i].attrs[k].path = <<"handler">>}
HandlerCount(i) == Cardinality(HandlerIdx(i))
Offending == {i \in 1..NVariants : HandlerCount(i) # 1}

\* the payload of variant i's handler annotation, when it has exactly one
PayloadOf(i) == Variants[i].attrs[CHOOSE k \in HandlerIdx(i) : TRUE].tokens

\* a payload that is a parenthesised function path: (f) or (a :: b :: f)
IsParenPath(p) ==
    /\ Len(p) >= 2 /\ p[1] = "(" /\ p[Len(p)] = ")"
    /\ ParsePath(Lex(SubSeq(p, 2, Len(p) - 1), <<>>)).ok

PathIn(p) == ParsePath(Lex(SubSeq(p, 2, Len(p) - 1), <<>>)).path

Selector(i) == <<derive.ident, Variants[i].ident>>
Named(i) == derive.ident \o <<":", ":">> \o Variants[i].ident

\* one arm per variant, in declaration order, each selecting its variant
OneArmPerVariant ==
    /\ result.kind = "tokens"
    /\ result.self_ty = derive.ident
    /\ Len(result.contents) = NVariants
    /\ \A i \in 1..NVariants : result.contents[i].pat.path = Selector(i)

\* C5 as stated: every enum whose variants each carry exactly one handler
\* annotation gets exactly one arm per variant, in declaration order.
C5_AsStated ==
    (Expanded /\ derive.kind = "enum" /\ Offending = {}) => OneArmPerVariant

\* C5 amended: the same, for the enums whose handler payloads are all
\* parenthesised function paths.
C5_OneArmPerVariant ==
    (/\ Expanded /\ derive.kind = "enum" /\ Offending = {}
     /\ \A i \in 1..NVariants : IsParenPath(PayloadOf(i)))
    => OneArmPerVariant

C5_Witness ==
    /\ Expanded /\ derive.kind = "enum" /\ NVariants = MaxVariants /\ Offending = {}
    /\ \A i \in 1..NVariants : IsParenPath(PayloadOf(i))
    /\ \E i \in 1..NVariants : Len(Variants[i].attrs) = 2
    /\ result.kind = "tokens" /\ Len(result.contents) = MaxVariants

PositionalNames ==
    <<<<"_", "_", "1">>, <<"_", "_", "2">>, <<"_", "_", "3">>, <<"_", "_", "4">>>>

\* C6: the arm generated for a variant with N fields binds __1 .. __N in its
\* pattern and passes exactly these, in this order, to the handler; for
\* N = 0 there are no bindings and no arguments.
C6_PositionalForwarding ==
    (Expanded /\ result.kind = "tokens") =>
        /\ Len(result.contents) = NVariants
        /\ \A i \in 1..NVariants :
              LET n == Len(Variants[i].fields)
              IN  /\ result.contents[i].pat.binds = SubSeq(PositionalNames, 1, n)
                  /\ result.contents[i].body.args = SubSeq(PositionalNames, 1, n)

C6_Witness ==
    /\ Expanded /\ result.kind = "tokens" /\ NVariants = 2
    /\ Len(Variants[1].fields) = 2 /\ Len(Variants[2].fields) = 0
    /\ Len(result.contents[1].body.args) = 2
    /\ result.contents[2].body.args = <<>>

\* C7: a handler reference without "::" is called as <TypeName>::<handler>,
\* and one that contains "::" is called as written.
C7_HandlerResolution ==
    (Expanded /\ result.kind = "tokens") =>
        /\ Len(result.contents) = NVariants
        /\ \A i \in 1..NVariants :
              LET inner == SubSeq(PayloadOf(i), 2, Len(PayloadOf(i)) - 1)
              IN  result.contents[i].body.func =
                      IF \E k \in 1..(Len(inner) - 1) : inner[k] = ":" /\ inner[k + 1] = ":"
                      THEN PathIn(PayloadOf(i))
                      ELSE <<derive.ident>> \o PathIn(PayloadOf(i))

C7_Witness ==
    /\ Expanded /\ result.kind = "tokens" /\ NVariants = 2
    /\ PayloadOf(1) = PQualified /\ PayloadOf(2) = PBare
    /\ result.contents[1].body.func = <<<<"U">>, <<"g">>>>
    /\ result.contents[2].body.func = <<<<"T">>, <<"f">>>>

Missing(i) ==
    <<"Variant ">> \o Named(i)
        \o <<" is missing attribute #[handler(your_handler_function)]">>
TooMany(i) == <<"Variant ">> \o Named(i) \o <<" has too many handler attributes">>

\* an earlier variant whose single handler annotation has no payload
EmptyPayloadBefore(i) == \E j \in 1..(i - 1) : HandlerCount(j) = 1 /\ PayloadOf(j) = <<>>

NamesTypeAndVariant ==
    /\ Contains(result.msg, derive.ident)
    /\ \E i \in 1..NVariants : Contains(result.msg, Named(i))

C10_ZeroVariants ==
    (Expanded /\ derive.kind = "enum" /\ NVariants = 0) =>
        /\ result.kind = "tokens"
        /\ result.self_ty = derive.ident
        /\ result.contents = <<>>

C10_Witness ==
    /\ Expanded /\ derive.kind = "enum" /\ derive.variants = <<>>
    /\ result.kind = "tokens" /\ Len(result.contents) = 0

====
